---- MODULE Spec2Model ----
(***************************************************************************)
(* Model of src/main.py: the clean_excel transformation (header            *)
(* resolution, row extraction, per-product aggregation, grouped writer,    *)
(* summary ranking, save) and the ExcelCleanerUI handlers that start it.   *)
(*                                                                         *)
(* Conventions.                                                            *)
(*  - A Python str is a sequence of one-character strings; the             *)
(*    noncharacter U+FFFF used by sort_key is the element "U+FFFF" and the *)
(*    character U+1F600, which lies above it, the element "U+1F600".       *)
(*  - A cell value is a record [t, n, s]: t is the Python type ("none",    *)
(*    "int", "float", "str"), n the number (a float is kept in halves, so  *)
(*    n = 3 is 1.5), s the text.                                           *)
(*  - Python's 0-based column indices are 1-based here; None for an index  *)
(*    is 0.  A variable that holds None or a str holds <<>> or <<str>>.    *)
(***************************************************************************)
EXTENDS Integers, Sequences, FiniteSets, TLC

\* ------------------------------------------------------------------ bounds

\* Largest number of data rows the input sheet holds.
MaxRows == 2

\* Largest number of worker threads the UI model starts.
MaxThreads == 3

\* ------------------------------------------------------------- characters

UpperAlpha ==
  <<"A","B","C","D","E","F","G","H","I","J","K","L","M",
    "N","O","P","Q","R","S","T","U","V","W","X","Y","Z">>

LowerAlpha ==
  <<"a","b","c","d","e","f","g","h","i","j","k","l","m",
    "n","o","p","q","r","s","t","u","v","w","x","y","z">>

DigitChars == <<"0","1","2","3","4","5","6","7","8","9">>

Range(seq) == { seq[i] : i \in 1..Len(seq) }

IndexIn(seq, c) == CHOOSE i \in 1..Len(seq) : seq[i] = c

\* The characters the regular expression class \s matches.
Whitespace == {" ", "\t", "\n"}

\* ord(c): the code point of a character.
Ord(c) ==
  IF c \in Range(DigitChars) THEN 47 + IndexIn(DigitChars, c)
  ELSE IF c \in Range(UpperAlpha) THEN 64 + IndexIn(UpperAlpha, c)
  ELSE IF c \in Range(LowerAlpha) THEN 96 + IndexIn(LowerAlpha, c)
  ELSE IF c = "\t" THEN 9
  ELSE IF c = "\n" THEN 10
  ELSE IF c = " " THEN 32
  ELSE IF c = "-" THEN 45
  ELSE IF c = "." THEN 46
  ELSE IF c = "_" THEN 95
  ELSE IF c = "U+1F600" THEN 128512
  ELSE 65535

\* Python's < on str: lexicographic by code point.
RECURSIVE StrLess(_, _)
StrLess(a, b) ==
  IF b = <<>> THEN FALSE
  ELSE IF a = <<>> THEN TRUE
  ELSE IF a[1] # b[1] THEN Ord(a[1]) < Ord(b[1])
  ELSE StrLess(Tail(a), Tail(b))

\* str.lower()
lower(s) ==
  [i \in 1..Len(s) |->
     IF s[i] \in Range(UpperAlpha) THEN LowerAlpha[IndexIn(UpperAlpha, s[i])]
     ELSE s[i]]

RECURSIVE lstrip(_)
lstrip(s) ==
  IF s # <<>> /\ s[1] \in Whitespace THEN lstrip(Tail(s)) ELSE s

RECURSIVE rstrip(_)
rstrip(s) ==
  IF s # <<>> /\ s[Len(s)] \in Whitespace
  THEN rstrip(SubSeq(s, 1, Len(s) - 1)) ELSE s

\* str.strip()
strip(s) == rstrip(lstrip(s))

\* re.sub(r"[\s_-]+", "", s): every run of the class is deleted.
DeleteSeparators(s) ==
  SelectSeq(s, LAMBDA c : c \notin (Whitespace \cup {"_", "-"}))

\* re.sub(r"\s+", " ", s): every run of whitespace becomes one space.
RECURSIVE CollapseWhitespace(_)
CollapseWhitespace(s) ==
  IF s = <<>> THEN <<>>
  ELSE IF s[1] \in Whitespace
       THEN <<" ">> \o CollapseWhitespace(lstrip(s))
       ELSE <<s[1]>> \o CollapseWhitespace(Tail(s))

IsPrefix(p, s) == Len(p) <= Len(s) /\ SubSeq(s, 1, Len(p)) = p

\* The longest run of digits at the start of s (the group (\d*)).
RECURSIVE LeadingDigits(_)
LeadingDigits(s) ==
  IF s # <<>> /\ s[1] \in Range(DigitChars)
  THEN <<s[1]>> \o LeadingDigits(Tail(s)) ELSE <<>>

\* int(s) for a string of digits.
RECURSIVE DigitsToInt(_)
DigitsToInt(s) ==
  IF s = <<>> THEN 0
  ELSE 10 * DigitsToInt(SubSeq(s, 1, Len(s) - 1))
       + (IndexIn(DigitChars, s[Len(s)]) - 1)

\* str(n) for an int n >= 0.
RECURSIVE IntToDigits(_)
IntToDigits(n) ==
  IF n < 10 THEN <<DigitChars[n + 1]>>
  ELSE IntToDigits(n \div 10) \o <<DigitChars[(n % 10) + 1]>>

\* ------------------------------------------------------------ cell values

None == [t |-> "none", n |-> 0, s |-> <<>>]
PyInt(k) == [t |-> "int", n |-> k, s |-> <<>>]
\* The float h/2.
PyFloat(h) == [t |-> "float", n |-> h, s |-> <<>>]
PyStr(x) == [t |-> "str", n |-> 0, s |-> x]
\* A literal text the program writes itself (sheet titles, labels).
Label(text) == [t |-> "label", n |-> 0, s |-> <<text>>]

\* The number a numeric value stands for, in halves.
Halves(v) == IF v.t = "int" THEN 2 * v.n ELSE v.n

IsNumber(v) == v.t \in {"int", "float"}

\* str(value)
str(v) ==
  IF v.t = "str" THEN v.s
  ELSE IF v.t = "int"
       THEN (IF v.n < 0 THEN <<"-">> \o IntToDigits(-v.n) ELSE IntToDigits(v.n))
  ELSE IF v.t = "float"
       THEN (IF v.n < 0 THEN <<"-">> ELSE <<>>)
            \o IntToDigits((IF v.n < 0 THEN -v.n ELSE v.n) \div 2)
            \o (IF v.n % 2 = 0 THEN <<".", "0">> ELSE <<".", "5">>)
  ELSE <<"N", "o", "n", "e">>

\* ------------------------------------------------------------ header names

S_order_id == <<"o","r","d","e","r","_","i","d">>
S_quantity == <<"q","u","a","n","t","i","t","y">>
S_total_quantity == <<"t","o","t","a","l","_","q","u","a","n","t","i","t","y">>
S_productname == <<"p","r","o","d","u","c","t","n","a","m","e">>
S_productquantity == <<"p","r","o","d","u","c","t","q","u","a","n","t","i","t","y">>

\* HEADER_ALIASES as the set of its (key, value) items.
AliasItems ==
  { <<<<"o","r","d","e","r","i","d">>, S_order_id>>,
    <<<<"o","r","d","e","r","_","i","d">>, S_order_id>>,
    <<<<"o","r","d","e","r"," ","i","d">>, S_order_id>>,
    <<<<"i","d">>, S_order_id>>,
    <<<<"q","t","y">>, S_quantity>>,
    <<<<"q","u","a","n","t","i","t","y">>, S_quantity>>,
    <<<<"t","o","t","a","l","q","u","a","n","t","i","t","y">>, S_total_quantity>>,
    <<<<"t","o","t","a","l","_","q","u","a","n","t","i","t","y">>, S_total_quantity>>,
    <<<<"t","o","t","a","l"," ","q","u","a","n","t","i","t","y">>, S_total_quantity>>,
    <<<<"t","o","t","a","l","_","q","t","y">>, S_total_quantity>> }

HEADER_ALIASES ==
  [k \in { p[1] : p \in AliasItems } |-> (CHOOSE p \in AliasItems : p[1] = k)[2]]

\* normalize_header(name)
normalize_header(name) ==
  LET key == DeleteSeparators(lower(strip(name)))
  IN IF key \in DOMAIN HEADER_ALIASES THEN HEADER_ALIASES[key] ELSE key

\* normalize_product_name(name): name is a cell value.
normalize_product_name(name) ==
  IF name = None THEN <<>>
  ELSE CollapseWhitespace(lower(strip(str(name))))

\* re.match(r"productname(\d*)", key): <<>> for no match, else <<num>> with
\* num = int(group(1) or "1").
name_match(key) ==
  IF IsPrefix(S_productname, key)
  THEN LET d == LeadingDigits(SubSeq(key, Len(S_productname) + 1, Len(key)))
       IN <<IF d = <<>> THEN 1 ELSE DigitsToInt(d)>>
  ELSE <<>>

\* re.match(r"(productquantity|quantity)(\d*)", key), as name_match.
qty_match(key) ==
  LET word == IF IsPrefix(S_productquantity, key) THEN S_productquantity
              ELSE IF IsPrefix(S_quantity, key) THEN S_quantity
              ELSE <<>>
  IN IF word = <<>> THEN <<>>
     ELSE LET d == LeadingDigits(SubSeq(key, Len(word) + 1, Len(key)))
          IN <<IF d = <<>> THEN 1 ELSE DigitsToInt(d)>>

\* A dict d with d[k] = v added or replaced.
DictPut(d, k, v) ==
  [x \in DOMAIN d \cup {k} |-> IF x = k THEN v ELSE d[x]]

EmptyDict == [x \in {} |-> 0]

\* The header loop of clean_excel from column idx on; acc holds order_col
\* (0 is None), product_name_cols and quantity_cols.
RECURSIVE HeaderLoop(_, _, _)
HeaderLoop(cells, idx, acc) ==
  IF idx > Len(cells) THEN acc
  ELSE LET text == IF cells[idx] = None THEN <<>> ELSE cells[idx].s
           key == normalize_header(text)
           nm == name_match(key)
           qm == qty_match(key)
       IN IF key = S_order_id
          THEN HeaderLoop(cells, idx + 1, [acc EXCEPT !.order_col = idx])
          ELSE HeaderLoop(cells, idx + 1,
                 [order_col |-> acc.order_col,
                  product_name_cols |->
                    IF nm # <<>> THEN DictPut(acc.product_name_cols, nm[1], idx)
                    ELSE acc.product_name_cols,
                  quantity_cols |->
                    IF qm # <<>> THEN DictPut(acc.quantity_cols, qm[1], idx)
                    ELSE acc.quantity_cols])

ResolveHeaders(cells) ==
  HeaderLoop(cells, 1,
    [order_col |-> 0, product_name_cols |-> EmptyDict, quantity_cols |-> EmptyDict])

\* HeaderError with the fault of leaving out the product-column check.
HeaderError_NoProductCheck(roles) ==
  IF roles.order_col = 0 THEN "ValueError: Missing required column: id / order_id"
  ELSE "none"

\* The two checks after the header loop: which error, if any, is raised.
HeaderError(roles) ==
  IF roles.order_col = 0 THEN "ValueError: Missing required column: id / order_id"
  ELSE IF DOMAIN roles.product_name_cols = {} /\ DOMAIN roles.quantity_cols = {}
       THEN "ValueError: No productName / productQuantity columns found."
  ELSE "none"

\* The check on the input path: which error, if any, is raised.
OpenError(exists) ==
  IF ~exists THEN "FileNotFoundError: File not found" ELSE "none"

\* sorted(S) for a set of ints.
RECURSIVE SortedInts(_)
SortedInts(S) ==
  IF S = {} THEN <<>>
  ELSE LET m == CHOOSE x \in S : \A y \in S : x <= y
       IN <<m>> \o SortedInts(S \ {m})

\* row[idx] if idx is not None and idx < len(row) else None
CellAt(r, idx) == IF idx # 0 /\ idx <= Len(r) THEN r[idx] ELSE None

\* ------------------------------------------------------------ quantities

\* float(s) for a str: the model reads an optionally padded string of digits
\* and rejects every other text (the inputs hold no other numeric spelling).
FloatOfStr(s) ==
  LET body == strip(s)
  IN IF body # <<>> /\ Range(body) \subseteq Range(DigitChars)
     THEN PyFloat(2 * DigitsToInt(body)) ELSE None

\* parse_quantity(value)
parse_quantity(value) ==
  IF value = None THEN None
  ELSE IF value.t = "int" THEN PyFloat(2 * value.n)
  ELSE IF value.t = "float" THEN value
  ELSE FloatOfStr(value.s)

\* format_number(num)
format_number(num) ==
  IF num = None THEN None
  ELSE IF num.t = "float" /\ num.n % 2 = 0 THEN PyInt(num.n \div 2)
  ELSE num

\* ------------------------------------------------------------------ state

VARIABLES
  file_exists,            \* file_path.exists()
  header_cells,           \* row 1 of the input sheet
  pc,                     \* where clean_excel stands
  error,                  \* the exception clean_excel raised, or "none"
  order_col,              \* 0 is None
  product_name_cols,      \* dict num -> column
  quantity_cols,          \* dict num -> column
  rows_read,              \* data rows taken from sheet.iter_rows so far
  row,                    \* the data row of the running loop iteration
  nums,                   \* sorted(set(product_name_cols) | set(quantity_cols))
  group_pos,              \* position of the inner loop in nums
  extracted_rows,
  product_totals,         \* dict in insertion order: sequence of [key, total]
  product_has_numeric,    \* dict key -> True
  product_display_names,  \* dict key -> raw name
  new_sheet,              \* rows of the "Cleaned" sheet, <<>> before it exists
  cell_writes,            \* rows whose column 4 finalize_group assigned
  merged_cells,           \* ranges passed to merge_cells, column 4 each
  current_product_key,    \* <<>> is None, <<key>> a key
  group_start_row,        \* 0 is None
  excel_row,
  write_pos,              \* position of the writer loop in extracted_rows
  summary_rows,
  summary_sheet,          \* rows of the "Summary" sheet, <<>> before it exists
  saved,                  \* new_wb.save(output_path) has run
  file_var,               \* ExcelCleanerUI.file_var
  status_var,             \* ExcelCleanerUI.status_var
  threads,                \* the worker threads started, in order
  dialogs,                \* message boxes shown so far
  output_files            \* the files written in the working directory

cleanVars ==
  <<file_exists, header_cells, pc, error, order_col, product_name_cols,
    quantity_cols, rows_read, row, nums, group_pos, extracted_rows,
    product_totals, product_has_numeric, product_display_names, new_sheet,
    cell_writes, merged_cells, current_product_key, group_start_row,
    excel_row, write_pos, summary_rows, summary_sheet, saved>>

uiVars == <<file_var, status_var, threads, dialogs, output_files>>

vars == <<cleanVars, uiVars>>

\* ----------------------------------------------------------------- inputs

\* The header rows the model draws the input sheet's row 1 from.
Headers ==
  { <<PyStr(<<"O","r","d","e","r"," ","I","D">>), PyStr(<<"P","r","o","d","u","c","t"," ","N","a","m","e">>), PyStr(<<"Q","t","y">>)>>,
    <<PyStr(<<"i","d">>), PyStr(<<"p","r","o","d","u","c","t","N","a","m","e">>), PyStr(<<"Q","u","a","n","t","i","t","y"," ","2">>)>>,
    <<PyStr(<<"T","o","t","a","l","_","Q","t","y">>), PyStr(<<"P","r","o","d","u","c","t"," ","N","a","m","e"," ","2">>), PyStr(<<"q","t","y">>)>>,
    <<PyStr(<<"O","R","D","E","R","_","I","D">>), PyStr(<<"T","o","t","a","l","_","Q","t","y">>), PyStr(<<"n","o","t","e","s">>)>>,
    <<PyStr(<<"o","r","d","e","r","-","i","d">>), PyStr(<<"P","r","o","d","u","c","t"," ","N","a","m","e"," ","2">>), PyStr(<<"T","o","t","a","l","_","Q","t","y">>)>> }

OrderValues == { None, PyInt(2), PyInt(10), PyStr(<<"b">>) }

\* No name holds U+FFFF: load_workbook parses XML 1.0, which has no such
\* character, so no cell of an input file can hold it.
NameValues ==
  { None, PyStr(<<"W">>), PyStr(<<" ", "w">>), PyStr(<<"G">>),
    PyStr(<<" ">>), PyStr(<<"U+1F600">>) }

QuantityValues ==
  { None, PyInt(0), PyFloat(1), PyStr(<<"2">>), PyStr(<<"x">>) }

\* The data rows the model draws from: three cells each.
RowValues ==
  { <<PyInt(2), nm, q>> : nm \in NameValues, q \in QuantityValues }
  \cup
  { <<o, nm, PyStr(<<"2">>)>> :
      o \in OrderValues, nm \in { None, PyStr(<<"W">>) } }

\* ------------------------------------------------------------- aggregator

\* product_totals is an insertion-ordered dict: a sequence of [key, total].
TotalsKeys(totals) == { totals[i].key : i \in 1..Len(totals) }

\* totals.get(key, default)
TotalsGet(totals, key, default) ==
  IF key \in TotalsKeys(totals)
  THEN totals[CHOOSE i \in 1..Len(totals) : totals[i].key = key].total
  ELSE default

\* totals[key] = value: a new key goes last, a known key keeps its place.
TotalsPut(totals, key, value) ==
  IF key \in TotalsKeys(totals)
  THEN [i \in 1..Len(totals) |->
          IF totals[i].key = key THEN [key |-> key, total |-> value]
          ELSE totals[i]]
  ELSE Append(totals, [key |-> key, total |-> value])

\* UpdateDisplayNames with the fault of letting the last name win.
UpdateDisplayNames_LastWins(names, product_key, product_name) ==
  IF product_key # <<>> THEN DictPut(names, product_key, product_name)
  ELSE names

\* Lines 375-376: the first name seen for a non-empty key is kept.
UpdateDisplayNames(names, product_key, product_name) ==
  IF product_key # <<>> /\ product_key \notin DOMAIN names
  THEN DictPut(names, product_key, product_name)
  ELSE names

\* UpdateTotals with the fault of storing the quantity instead of adding it.
UpdateTotals_Overwrite(totals, product_key, qty_value) ==
  IF qty_value # None THEN TotalsPut(totals, product_key, qty_value)
  ELSE IF product_key \in TotalsKeys(totals) THEN totals
       ELSE Append(totals, [key |-> product_key, total |-> PyFloat(0)])

\* Lines 377-383, product_totals.
UpdateTotals(totals, product_key, qty_value) ==
  IF qty_value # None
  THEN TotalsPut(totals, product_key,
         PyFloat(TotalsGet(totals, product_key, PyFloat(0)).n + qty_value.n))
  ELSE IF product_key \in TotalsKeys(totals) THEN totals
       ELSE Append(totals, [key |-> product_key, total |-> PyFloat(0)])

\* Lines 377-381, product_has_numeric.
UpdateHasNumeric(has, product_key, qty_value) ==
  IF qty_value # None THEN DictPut(has, product_key, TRUE) ELSE has

\* SkipGroup with the fault of skipping when either cell is empty.
SkipGroup_Either(product_name, qty_raw) == product_name = None \/ qty_raw = None

\* Line 371: the group is skipped.
SkipGroup(product_name, qty_raw) == product_name = None /\ qty_raw = None

\* Lines 385-395: the record appended to extracted_rows.
NewRecord(rows, order_id, product_name, qty_raw) ==
  LET qty_value == parse_quantity(qty_raw)
  IN [product_key |-> normalize_product_name(product_name),
      order_id |-> order_id,
      product_name |-> product_name,
      quantity_display |->
        IF qty_value # None THEN format_number(qty_value) ELSE qty_raw,
      row_index |-> Len(rows)]

\* ----------------------------------------------------------------- sorting

\* sort_key with the fault of putting the order id before the product key.
sort_key_OrderFirst(item) ==
  [product_key |-> str(item.order_id),
   order |-> IF item.product_key # <<>> THEN item.product_key ELSE <<"U+FFFF">>,
   row_index |-> item.row_index]

\* sort_key with the fault of leaving the order id out of the key.
sort_key_NoOrderId(item) ==
  [product_key |->
     IF item.product_key # <<>> THEN item.product_key ELSE <<"U+FFFF">>,
   order |-> <<>>,
   row_index |-> item.row_index]

\* sort_key(item): the tuple (product_key or U+FFFF, str(order_id), row_index).
sort_key(item) ==
  [product_key |->
     IF item.product_key # <<>> THEN item.product_key ELSE <<"U+FFFF">>,
   order |-> str(item.order_id),
   row_index |-> item.row_index]

\* Python's < on the tuples sort_key returns.
KeyLess(a, b) ==
  IF a.product_key # b.product_key THEN StrLess(a.product_key, b.product_key)
  ELSE IF a.order # b.order THEN StrLess(a.order, b.order)
  ELSE a.row_index < b.row_index

\* One step of a stable sort: x goes behind every element not greater than it.
InsertRow(out, x) ==
  LET k == Cardinality({ j \in 1..Len(out) :
                           ~KeyLess(sort_key(x), sort_key(out[j])) })
  IN SubSeq(out, 1, k) \o <<x>> \o SubSeq(out, k + 1, Len(out))

\* extracted_rows.sort(key=sort_key)
RECURSIVE SortedRows(_)
SortedRows(rows) ==
  IF rows = <<>> THEN <<>>
  ELSE InsertRow(SortedRows(SubSeq(rows, 1, Len(rows) - 1)), rows[Len(rows)])

\* ------------------------------------------------------------------ writer

\* total_for_product_key(product_key)
total_for_product_key(product_key) ==
  IF product_key \in DOMAIN product_has_numeric
     /\ product_has_numeric[product_key]
  THEN format_number(TotalsGet(product_totals, product_key, None))
  ELSE None

\* finalize_group with the fault of merging a run of one row too.
finalize_group_AlwaysMerge(w, product_key, start_row, end_row) ==
  [sheet |-> [w.sheet EXCEPT ![start_row][4] = total_for_product_key(product_key)],
   writes |-> Append(w.writes, start_row),
   merges |->
     Append(w.merges,
       [start_row |-> start_row, start_column |-> 4,
        end_row |-> end_row, end_column |-> 4])]

\* finalize_group on the sink w = [sheet, writes, merges]; the alignment it
\* sets is presentation only and is left out.
finalize_group(w, product_key, start_row, end_row) ==
  [sheet |-> [w.sheet EXCEPT ![start_row][4] = total_for_product_key(product_key)],
   writes |-> Append(w.writes, start_row),
   merges |->
     IF end_row > start_row
     THEN Append(w.merges,
            [start_row |-> start_row, start_column |-> 4,
             end_row |-> end_row, end_column |-> 4])
     ELSE w.merges]

\* The last row of the group the writer loop closes when it stands at excel_row.
GroupEndRow(next_row) == next_row - 1

\* Line 331: the header row of the "Cleaned" sheet.
CleanedHeader ==
  <<Label("Order Id"), Label("Product Name"), Label("Quantity"),
    Label("Total Quantity")>>

\* ----------------------------------------------------------------- summary

RECURSIVE SumTotals(_)
SumTotals(totals) ==
  IF totals = <<>> THEN 0
  ELSE totals[1].total.n + SumTotals(Tail(totals))

\* Lines 484-491: the entries of the ranking before they are sorted.
RECURSIVE RankedEntries(_)
RankedEntries(totals) ==
  IF totals = <<>> THEN <<>>
  ELSE LET key == totals[1].key
           rest == RankedEntries(Tail(totals))
       IN IF key = <<>> THEN rest
          ELSE IF ~(key \in DOMAIN product_has_numeric
                    /\ product_has_numeric[key]) THEN rest
          ELSE <<[name |-> IF key \in DOMAIN product_display_names
                           THEN product_display_names[key] ELSE PyStr(key),
                  total |-> totals[1].total]>> \o rest

\* RankBefore with the fault of an ascending sort (reverse=True dropped).
RankBefore_Ascending(a, b) == a.total.n < b.total.n

\* Line 492: whether entry a goes before entry b (key x[1], reverse=True).
RankBefore(a, b) == a.total.n > b.total.n

InsertEntry(out, x) ==
  LET k == Cardinality({ j \in 1..Len(out) : ~RankBefore(x, out[j]) })
  IN SubSeq(out, 1, k) \o <<x>> \o SubSeq(out, k + 1, Len(out))

\* summary_rows.sort(key=lambda x: x[1], reverse=True): stable.
RECURSIVE SortedEntries(_)
SortedEntries(rows) ==
  IF rows = <<>> THEN <<>>
  ELSE InsertEntry(SortedEntries(SubSeq(rows, 1, Len(rows) - 1)), rows[Len(rows)])

\* Lines 470-502: the rows appended to the "Summary" sheet.
SummarySheet(totals, ranked) ==
  << <<Label("Output Summary")>>,
     <<Label("Total quantity (numeric)"),
       IF totals = <<>> THEN PyInt(0)
       ELSE format_number(PyFloat(SumTotals(totals)))>>,
     <<Label("Unique products"),
       PyInt(Cardinality(TotalsKeys(totals) \ {<<>>}))>>,
     <<>>,
     <<Label("Product name"), Label("Total quantity (numeric)")>> >>
  \o [i \in 1..Len(ranked) |-> <<ranked[i].name, format_number(ranked[i].total)>>]
  \o (IF ranked # <<>>
      THEN << <<>>,
              <<Label("Best-selling product"), ranked[1].name>>,
              <<Label("Sales amount (numeric)"), format_number(ranked[1].total)>> >>
      ELSE <<>>)

\* ------------------------------------------------------------ clean_excel

CleanStart(exists, cells) ==
  /\ file_exists = exists
  /\ header_cells = cells
  /\ pc = "start"
  /\ error = "none"
  /\ order_col = 0
  /\ product_name_cols = EmptyDict
  /\ quantity_cols = EmptyDict
  /\ rows_read = 0
  /\ row = <<>>
  /\ nums = <<>>
  /\ group_pos = 0
  /\ extracted_rows = <<>>
  /\ product_totals = <<>>
  /\ product_has_numeric = EmptyDict
  /\ product_display_names = EmptyDict
  /\ new_sheet = <<>>
  /\ cell_writes = <<>>
  /\ merged_cells = <<>>
  /\ current_product_key = <<>>
  /\ group_start_row = 0
  /\ excel_row = 2
  /\ write_pos = 1
  /\ summary_rows = <<>>
  /\ summary_sheet = <<>>
  /\ saved = FALSE

UIStart ==
  /\ file_var = ""
  /\ status_var = "Select an .xlsx file to start."
  /\ threads = <<>>
  /\ dialogs = {}
  /\ output_files = {}

Init ==
  /\ \E exists \in BOOLEAN, cells \in Headers : CleanStart(exists, cells)
  /\ UIStart

\* Lines 299-303: the path check and load_workbook.
OpenWorkbook ==
  /\ pc = "start"
  /\ IF OpenError(file_exists) # "none"
     THEN /\ pc' = "error"
          /\ error' = OpenError(file_exists)
     ELSE /\ pc' = "header"
          /\ error' = error
  /\ UNCHANGED <<file_exists, header_cells, order_col, product_name_cols,
                 quantity_cols, rows_read, row, nums, group_pos,
                 extracted_rows, product_totals, product_has_numeric,
                 product_display_names, new_sheet, cell_writes, merged_cells,
                 current_product_key, group_start_row, excel_row, write_pos,
                 summary_rows, summary_sheet, saved, uiVars>>

\* Lines 305-331: the header loop, its two checks, the new workbook.
ResolveHeader ==
  /\ pc = "header"
  /\ LET roles == ResolveHeaders(header_cells)
     IN /\ order_col' = roles.order_col
        /\ product_name_cols' = roles.product_name_cols
        /\ quantity_cols' = roles.quantity_cols
        /\ IF HeaderError(roles) # "none"
           THEN /\ pc' = "error"
                /\ error' = HeaderError(roles)
                /\ UNCHANGED <<new_sheet, nums>>
           ELSE /\ pc' = "rows"
                /\ error' = error
                /\ new_sheet' = <<CleanedHeader>>
                /\ nums' = SortedInts(DOMAIN roles.product_name_cols
                                      \cup DOMAIN roles.quantity_cols)
  /\ UNCHANGED <<file_exists, header_cells, rows_read, row, group_pos,
                 extracted_rows, product_totals, product_has_numeric,
                 product_display_names, cell_writes, merged_cells,
                 current_product_key, group_start_row, excel_row, write_pos,
                 summary_rows, summary_sheet, saved, uiVars>>

\* Lines 353-357: the next data row; a row without order id is passed over,
\* and so is every row when the loop over the groups has nothing to visit.
ReadRow ==
  /\ pc = "rows"
  /\ rows_read < MaxRows
  /\ \E r \in RowValues :
       /\ row' = r
       /\ rows_read' = rows_read + 1
       /\ IF CellAt(r, order_col) = None \/ nums = <<>>
          THEN pc' = "rows" /\ group_pos' = 0
          ELSE pc' = "group" /\ group_pos' = 1
  /\ UNCHANGED <<file_exists, header_cells, error, order_col,
                 product_name_cols, quantity_cols, nums, extracted_rows,
                 product_totals, product_has_numeric, product_display_names,
                 new_sheet, cell_writes, merged_cells, current_product_key,
                 group_start_row, excel_row, write_pos, summary_rows,
                 summary_sheet, saved, uiVars>>

\* Lines 357-395: one iteration of the loop over the column groups.
ExtractGroup ==
  /\ pc = "group"
  /\ LET num == nums[group_pos]
         name_idx == IF num \in DOMAIN product_name_cols
                     THEN product_name_cols[num] ELSE 0
         qty_idx == IF num \in DOMAIN quantity_cols
                    THEN quantity_cols[num] ELSE 0
         order_id == CellAt(row, order_col)
         product_name == CellAt(row, name_idx)
         qty_raw == CellAt(row, qty_idx)
         qty_value == parse_quantity(qty_raw)
         product_key == normalize_product_name(product_name)
     IN IF SkipGroup(product_name, qty_raw)
        THEN UNCHANGED <<extracted_rows, product_totals, product_has_numeric,
                         product_display_names>>
        ELSE /\ product_display_names' =
                  UpdateDisplayNames(product_display_names, product_key,
                                     product_name)
             /\ product_totals' =
                  UpdateTotals(product_totals, product_key, qty_value)
             /\ product_has_numeric' =
                  UpdateHasNumeric(product_has_numeric, product_key, qty_value)
             /\ extracted_rows' =
                  Append(extracted_rows,
                         NewRecord(extracted_rows, order_id, product_name,
                                   qty_raw))
  /\ IF group_pos < Len(nums)
     THEN pc' = "group" /\ group_pos' = group_pos + 1
     ELSE pc' = "rows" /\ group_pos' = 0
  /\ UNCHANGED <<file_exists, header_cells, error, order_col,
                 product_name_cols, quantity_cols, rows_read, row, nums,
                 new_sheet, cell_writes, merged_cells, current_product_key,
                 group_start_row, excel_row, write_pos, summary_rows,
                 summary_sheet, saved, uiVars>>

\* Lines 353 and 397-401: iter_rows is exhausted and the records are sorted.
SortExtracted ==
  /\ pc = "rows"
  /\ extracted_rows' = SortedRows(extracted_rows)
  /\ pc' = "write"
  /\ UNCHANGED <<file_exists, header_cells, error, order_col,
                 product_name_cols, quantity_cols, rows_read, row, nums,
                 group_pos, product_totals, product_has_numeric,
                 product_display_names, new_sheet, cell_writes, merged_cells,
                 current_product_key, group_start_row, excel_row, write_pos,
                 summary_rows, summary_sheet, saved, uiVars>>

\* Lines 425-443: one iteration of the writer loop.
WriteRow ==
  /\ pc = "write"
  /\ write_pos <= Len(extracted_rows)
  /\ LET item == extracted_rows[write_pos]
         product_key == item.product_key
         first == current_product_key = <<>>
         changed == ~first /\ product_key # current_product_key[1]
         w0 == [sheet |-> new_sheet, writes |-> cell_writes,
                merges |-> merged_cells]
         w1 == IF changed
               THEN finalize_group(w0, current_product_key[1],
                                   group_start_row, GroupEndRow(excel_row))
               ELSE w0
     IN /\ current_product_key' =
             IF first \/ changed THEN <<product_key>> ELSE current_product_key
        /\ group_start_row' =
             IF first \/ changed THEN excel_row ELSE group_start_row
        /\ new_sheet' = Append(w1.sheet,
                          <<item.order_id, item.product_name,
                            item.quantity_display, None>>)
        /\ cell_writes' = w1.writes
        /\ merged_cells' = w1.merges
  /\ excel_row' = excel_row + 1
  /\ write_pos' = write_pos + 1
  /\ UNCHANGED <<file_exists, header_cells, pc, error, order_col,
                 product_name_cols, quantity_cols, rows_read, row, nums,
                 group_pos, extracted_rows, product_totals,
                 product_has_numeric, product_display_names, summary_rows,
                 summary_sheet, saved, uiVars>>

\* Lines 445-468: the last group is closed; autosize_columns only sets column
\* widths, which the model does not keep.
FinishWrite ==
  /\ pc = "write"
  /\ write_pos > Len(extracted_rows)
  /\ LET w0 == [sheet |-> new_sheet, writes |-> cell_writes,
                merges |-> merged_cells]
         w1 == IF current_product_key # <<>> /\ group_start_row # 0
               THEN finalize_group(w0, current_product_key[1],
                                   group_start_row, GroupEndRow(excel_row))
               ELSE w0
     IN /\ new_sheet' = w1.sheet
        /\ cell_writes' = w1.writes
        /\ merged_cells' = w1.merges
  /\ pc' = "summary"
  /\ UNCHANGED <<file_exists, header_cells, error, order_col,
                 product_name_cols, quantity_cols, rows_read, row, nums,
                 group_pos, extracted_rows, product_totals,
                 product_has_numeric, product_display_names,
                 current_product_key, group_start_row, excel_row, write_pos,
                 summary_rows, summary_sheet, saved, uiVars>>

\* Lines 470-505: the "Summary" sheet.
BuildSummary ==
  /\ pc = "summary"
  /\ summary_rows' = SortedEntries(RankedEntries(product_totals))
  /\ summary_sheet' = SummarySheet(product_totals, summary_rows')
  /\ pc' = "save"
  /\ UNCHANGED <<file_exists, header_cells, error, order_col,
                 product_name_cols, quantity_cols, rows_read, row, nums,
                 group_pos, extracted_rows, product_totals,
                 product_has_numeric, product_display_names, new_sheet,
                 cell_writes, merged_cells, current_product_key,
                 group_start_row, excel_row, write_pos, saved, uiVars>>

\* Lines 507-510: new_wb.save(output_path) and the return.
SaveWorkbook ==
  /\ pc = "save"
  /\ saved' = TRUE
  /\ pc' = "done"
  /\ UNCHANGED <<file_exists, header_cells, error, order_col,
                 product_name_cols, quantity_cols, rows_read, row, nums,
                 group_pos, extracted_rows, product_totals,
                 product_has_numeric, product_display_names, new_sheet,
                 cell_writes, merged_cells, current_product_key,
                 group_start_row, excel_row, write_pos, summary_rows,
                 summary_sheet, uiVars>>

Next ==
  \/ OpenWorkbook
  \/ ResolveHeader
  \/ ReadRow
  \/ ExtractGroup
  \/ SortExtracted
  \/ WriteRow
  \/ FinishWrite
  \/ BuildSummary
  \/ SaveWorkbook

Spec == Init /\ [][Next]_vars

\* --------------------------------------------------------- ExcelCleanerUI

\* The paths the file dialog returns.
Paths == {"a.xlsx", "d/a.xlsx", "b.xlsx"}

\* What the entry bound to file_var can hold: a path, nothing, or blanks.
EntryTexts == Paths \cup {"", " "}

\* file_var.get().strip()
StripPath(text) == IF text = " " THEN "" ELSE text

\* Lines 507-508: Path.cwd() / f"{file_path.stem}_cleaned.xlsx"
OutputPath(path) ==
  IF path \in {"a.xlsx", "d/a.xlsx"} THEN "a_cleaned.xlsx" ELSE "b_cleaned.xlsx"

\* Whether the click handler starts a worker for the stripped path.
StartsWorker(path) == path # ""

\* choose_file: the dialog returns a path, or "" when it is cancelled.
choose_file ==
  /\ \E path \in Paths \cup {""} :
       IF path # ""
       THEN /\ file_var' = path
            /\ status_var' = "Ready to clean."
       ELSE UNCHANGED <<file_var, status_var>>
  /\ UNCHANGED <<threads, dialogs, output_files, cleanVars>>

\* The user types into the entry whose textvariable is file_var.
EditEntry ==
  /\ \E text \in EntryTexts : file_var' = text
  /\ UNCHANGED <<status_var, threads, dialogs, output_files, cleanVars>>

\* _run_clean_async: the "Clean & Save" button.
run_clean_async ==
  /\ LET path == StripPath(file_var)
     IN IF ~StartsWorker(path)
        THEN /\ dialogs' = dialogs \cup {"No file selected"}
             /\ UNCHANGED <<status_var, threads>>
        ELSE /\ Len(threads) < MaxThreads
             /\ status_var' = "Working"
             /\ threads' = Append(threads, [path |-> path, pc |-> "clean_excel"])
             /\ UNCHANGED dialogs
  /\ UNCHANGED <<file_var, output_files, cleanVars>>

\* _clean_file, lines 276-281: clean_excel raises in worker i.
CleanRaises(i) ==
  /\ threads[i].pc = "clean_excel"
  /\ threads' = [threads EXCEPT ![i].pc = "returned"]
  /\ status_var' = "Something went wrong. Check the message."
  /\ dialogs' = dialogs \cup {"Error while cleaning"}
  /\ UNCHANGED <<file_var, output_files, cleanVars>>

\* clean_excel of worker i reaches new_wb.save(output_path).
CleanSaves(i) ==
  /\ threads[i].pc = "clean_excel"
  /\ threads' = [threads EXCEPT ![i].pc = "save"]
  /\ output_files' = output_files \cup {OutputPath(threads[i].path)}
  /\ UNCHANGED <<file_var, status_var, dialogs, cleanVars>>

\* _clean_file, lines 282-283: clean_excel has returned in worker i.
CleanReturns(i) ==
  /\ threads[i].pc = "save"
  /\ threads' = [threads EXCEPT ![i].pc = "returned"]
  /\ status_var' = "Saved cleaned file"
  /\ dialogs' = dialogs \cup {"Done"}
  /\ UNCHANGED <<file_var, output_files, cleanVars>>

InitUI ==
  /\ CleanStart(TRUE, <<>>)
  /\ UIStart

NextUI ==
  \/ choose_file
  \/ EditEntry
  \/ run_clean_async
  \/ \E i \in 1..Len(threads) : CleanRaises(i)
  \/ \E i \in 1..Len(threads) : CleanSaves(i)
  \/ \E i \in 1..Len(threads) : CleanReturns(i)

SpecUI == InitUI /\ [][NextUI]_vars

\* The workers that are inside clean_excel.
Running == { i \in 1..Len(threads) : threads[i].pc \in {"clean_excel", "save"} }

\* C10: at no time are two invocations of clean_excel running concurrently on
\* the same input/output file pair.
C10_NoConcurrentClean ==
  \A i, j \in Running :
    i # j => <<threads[i].path, OutputPath(threads[i].path)>>
             # <<threads[j].path, OutputPath(threads[j].path)>>

\* ------------------------------------------------------------- properties

\* The extraction pass is over.
Extracted == pc \in {"write", "summary", "save", "done"}

\* The "Cleaned" sheet is written.
Written == pc \in {"summary", "save", "done"}

RecordKeys == { extracted_rows[i].product_key : i \in 1..Len(extracted_rows) }

\* The records of a key whose quantity is a number.
NumericRecords(key) ==
  { i \in 1..Len(extracted_rows) :
      /\ extracted_rows[i].product_key = key
      /\ IsNumber(extracted_rows[i].quantity_display) }

RECURSIVE SumHalves(_)
SumHalves(S) ==
  IF S = {} THEN 0
  ELSE LET i == CHOOSE x \in S : TRUE
       IN Halves(extracted_rows[i].quantity_display) + SumHalves(S \ {i})

\* C1: at every point of the run, the total shown for a product key is the sum
\* of the numeric quantities of the extracted records with that key, and it is
\* None (never 0) for a key whose records hold no numeric quantity.
C1_TotalIsSum ==
  \A key \in RecordKeys :
    IF NumericRecords(key) = {}
    THEN total_for_product_key(key) = None
    ELSE /\ IsNumber(total_for_product_key(key))
         /\ Halves(total_for_product_key(key)) = SumHalves(NumericRecords(key))

\* C1 witness: the run is over, one key sums two numeric quantities to more
\* than zero and another key has records but no numeric quantity.
C1_Witness ==
  /\ pc = "done"
  /\ \E k1, k2 \in RecordKeys :
       /\ Cardinality(NumericRecords(k1)) >= 2
       /\ SumHalves(NumericRecords(k1)) > 0
       /\ NumericRecords(k2) = {}

\* The product key of a written row of the "Cleaned" sheet.
RowKey(r) == normalize_product_name(new_sheet[r][2])

\* C2: in the written "Cleaned" sheet the rows of one normalized product key,
\* the empty key included, are contiguous: no row of another key lies between
\* two rows of the same key.
C2_Contiguous ==
  Written =>
    \A i, j, k \in 2..Len(new_sheet) :
      (i < j /\ j < k /\ RowKey(i) = RowKey(k)) => RowKey(j) = RowKey(i)

\* C2 witness: the sheet is written from records found in the order empty
\* key, other key, empty key.
C2_Witness ==
  /\ pc = "done"
  /\ \E i, j, k \in 1..Len(extracted_rows) :
       /\ extracted_rows[i].row_index < extracted_rows[j].row_index
       /\ extracted_rows[j].row_index < extracted_rows[k].row_index
       /\ extracted_rows[i].product_key = <<>>
       /\ extracted_rows[k].product_key = <<>>
       /\ extracted_rows[j].product_key # <<>>

\* Ascending order of two order ids of the same type, as the values compare.
OrderIdLeq(a, b) ==
  IF a.t = "int" /\ b.t = "int" THEN a.n <= b.n
  ELSE IF a.t = "str" /\ b.t = "str" THEN a.s = b.s \/ StrLess(a.s, b.s)
  ELSE TRUE

\* C3 as stated: within a product group the sorted records ascend by order
\* id, numbers by their value, and equal order ids keep discovery order.
C3_SortedByOrderId ==
  Extracted =>
    \A i, j \in 1..Len(extracted_rows) :
      (i < j /\ extracted_rows[i].product_key = extracted_rows[j].product_key)
      => /\ OrderIdLeq(extracted_rows[i].order_id, extracted_rows[j].order_id)
         /\ extracted_rows[i].order_id = extracted_rows[j].order_id
            => extracted_rows[i].row_index < extracted_rows[j].row_index

\* C3 amended: within a product group the sorted records ascend by the text
\* str(order_id), compared character by character, records with the same text
\* keep discovery order, and the sheet is written in that order.
C3_SortedByOrderText ==
  /\ Extracted =>
       \A i, j \in 1..Len(extracted_rows) :
         (i < j /\ extracted_rows[i].product_key = extracted_rows[j].product_key)
         => \/ StrLess(str(extracted_rows[i].order_id),
                       str(extracted_rows[j].order_id))
            \/ /\ str(extracted_rows[i].order_id) = str(extracted_rows[j].order_id)
               /\ extracted_rows[i].row_index < extracted_rows[j].row_index
  /\ Written =>
       /\ Len(new_sheet) = Len(extracted_rows) + 1
       /\ \A i \in 1..Len(extracted_rows) :
            /\ new_sheet[i + 1][1] = extracted_rows[i].order_id
            /\ new_sheet[i + 1][2] = extracted_rows[i].product_name

\* C3 witness: a written group holds order id 10 before order id 2, found in
\* the other order.
C3_Witness ==
  /\ pc = "done"
  /\ \E i, j \in 1..Len(extracted_rows) :
       /\ i < j
       /\ extracted_rows[i].product_key = extracted_rows[j].product_key
       /\ extracted_rows[i].order_id = PyInt(10)
       /\ extracted_rows[j].order_id = PyInt(2)
       /\ extracted_rows[j].row_index < extracted_rows[i].row_index

\* The maximal runs of written rows with one product key, as <<start, end>>.
Runs ==
  LET keys == [r \in 2..Len(new_sheet) |-> RowKey(r)]
      starts == { s \in 2..Len(new_sheet) : s = 2 \/ keys[s - 1] # keys[s] }
      ends == { e \in 2..Len(new_sheet) :
                  e = Len(new_sheet) \/ keys[e + 1] # keys[e] }
  IN { se \in starts \X ends :
         /\ se[1] <= se[2]
         /\ \A e \in ends : e < se[1] \/ e >= se[2] }

\* The merged ranges that touch rows s..e.
MergesTouching(s, e) ==
  { i \in 1..Len(merged_cells) :
      merged_cells[i].start_row <= e /\ merged_cells[i].end_row >= s }

\* C4: in the written sheet every maximal run gets its total in column 4 of
\* its first row only, a run of two or more rows gets exactly one merged range
\* over column 4 of its rows, a run of one row gets none, and merged ranges do
\* not overlap.
C4_RunTotalsAndMerges ==
  Written =>
    /\ \A se \in Runs :
         LET s == se[1]
             e == se[2]
         IN /\ Cardinality({ i \in 1..Len(cell_writes) : cell_writes[i] = s }) = 1
            /\ new_sheet[s][4] = total_for_product_key(RowKey(s))
            /\ \A r \in (s + 1)..e :
                 /\ \A i \in 1..Len(cell_writes) : cell_writes[i] # r
                 /\ new_sheet[r][4] = None
            /\ IF e > s
               THEN /\ Cardinality(MergesTouching(s, e)) = 1
                    /\ \A i \in MergesTouching(s, e) :
                         merged_cells[i] =
                           [start_row |-> s, start_column |-> 4,
                            end_row |-> e, end_column |-> 4]
               ELSE MergesTouching(s, e) = {}
    /\ \A i, j \in 1..Len(merged_cells) :
         i # j => \/ merged_cells[i].end_row < merged_cells[j].start_row
                  \/ merged_cells[j].end_row < merged_cells[i].start_row

\* C4 witness: the written sheet holds a run of one row and a merged run of
\* several rows whose first row shows a total.
C4_Witness ==
  /\ pc = "done"
  /\ Len(merged_cells) >= 1
  /\ \E se \in Runs : se[1] = se[2]
  /\ \E se \in Runs : se[2] > se[1] /\ new_sheet[se[1]][4] # None

\* The totals of the keys in S that have a numeric quantity, in halves.
NumericTotals(S) ==
  { TotalsGet(product_totals, key, None).n :
      key \in { k \in S : k \in DOMAIN product_has_numeric } }

SetMax(S) == CHOOSE x \in S : \A y \in S : y <= x

RankingDescending ==
  \A i, j \in 1..Len(summary_rows) :
    i < j => summary_rows[i].total.n >= summary_rows[j].total.n

\* The summary is built.
Summarised == pc \in {"save", "done"}

\* C5 as stated: the ranking descends by total and its first entry holds the
\* largest total among all product keys that have a numeric quantity.
C5_BestIsMaxOfAllKeys ==
  Summarised =>
    /\ RankingDescending
    /\ summary_rows # <<>> =>
         summary_rows[1].total.n = SetMax(NumericTotals(TotalsKeys(product_totals)))

\* C5 amended: the ranking descends by total and its first entry, the
\* best-selling product the sheet shows, holds the largest total among the
\* non-empty product keys that have a numeric quantity.
C5_BestIsMaxOfNamedKeys ==
  Summarised =>
    /\ RankingDescending
    /\ Len(summary_rows) =
         Cardinality((TotalsKeys(product_totals) \ {<<>>})
                     \cap DOMAIN product_has_numeric)
    /\ summary_rows # <<>> =>
         LET best == SetMax(NumericTotals(TotalsKeys(product_totals) \ {<<>>}))
         IN /\ summary_rows[1].total.n = best
            /\ summary_sheet[Len(summary_sheet)][2] = format_number(PyFloat(best))

\* C5 witness: two ranked products, the one with the larger total found
\* second in the input.
C5_Witness ==
  /\ pc = "done"
  /\ Len(summary_rows) >= 2
  /\ summary_rows[1].total.n > summary_rows[2].total.n
  /\ product_totals[1].total.n < product_totals[2].total.n

\* The header texts of the input.
HeaderText(idx) ==
  IF header_cells[idx] = None THEN <<>> ELSE header_cells[idx].s

NoOrderHeader ==
  \A idx \in 1..Len(header_cells) : normalize_header(HeaderText(idx)) # S_order_id

NoProductHeader ==
  \A idx \in 1..Len(header_cells) :
    /\ name_match(normalize_header(HeaderText(idx))) = <<>>
    /\ qty_match(normalize_header(HeaderText(idx))) = <<>>

\* C6: a missing input file, a header row without order-id column and a
\* header row without product-name or quantity column each end clean_excel in
\* its own error, with no data row read, no output workbook and nothing
\* saved; the save happens last, when both sheets are built.
C6_FatalErrorsWriteNothing ==
  /\ (~file_exists \/ NoOrderHeader \/ NoProductHeader) =>
       /\ ~saved
       /\ rows_read = 0
       /\ new_sheet = <<>>
       /\ summary_sheet = <<>>
       /\ pc \in {"start", "header", "error"}
  /\ (pc = "error" \/ pc = "done") =>
       /\ ~file_exists <=> error = "FileNotFoundError: File not found"
       /\ (file_exists /\ NoOrderHeader) <=>
            error = "ValueError: Missing required column: id / order_id"
       /\ (file_exists /\ ~NoOrderHeader /\ NoProductHeader) <=>
            error = "ValueError: No productName / productQuantity columns found."
       /\ pc = "error" <=> error # "none"
  /\ saved =>
       /\ pc = "done"
       /\ write_pos > Len(extracted_rows)
       /\ Len(new_sheet) = Len(extracted_rows) + 1
       /\ summary_sheet # <<>>
  /\ pc = "done" => saved

\* C6 witness: the file exists, the header row has product columns and no
\* order-id column, and clean_excel has ended in its error.
C6_Witness ==
  /\ pc = "error"
  /\ file_exists
  /\ NoOrderHeader
  /\ ~NoProductHeader

\* The cells of the running row for column group num.
GroupName(num) ==
  CellAt(row, IF num \in DOMAIN product_name_cols THEN product_name_cols[num] ELSE 0)

GroupQuantity(num) ==
  CellAt(row, IF num \in DOMAIN quantity_cols THEN quantity_cols[num] ELSE 0)

AggregateVars ==
  <<extracted_rows, product_totals, product_has_numeric, product_display_names>>

\* C7: a step of the extractor over (row, n) is taken only for a row with an
\* order id, visits the groups one by one, and appends a record exactly when
\* the group's name or quantity cell is not empty; a group that emits nothing
\* and a row without order id leave the records, the totals, the has-numeric
\* flags and the display names as they are.
C7_RecordIffCells ==
  [][ /\ pc = "group" =>
           LET num == nums[group_pos]
               emitted == Len(extracted_rows') = Len(extracted_rows) + 1
           IN /\ CellAt(row, order_col) # None
              /\ emitted <=> (GroupName(num) # None \/ GroupQuantity(num) # None)
              /\ emitted =>
                   /\ SubSeq(extracted_rows', 1, Len(extracted_rows)) = extracted_rows
                   /\ extracted_rows'[Len(extracted_rows')].order_id
                        = CellAt(row, order_col)
                   /\ extracted_rows'[Len(extracted_rows')].product_name
                        = GroupName(num)
              /\ ~emitted => UNCHANGED AggregateVars
              /\ IF group_pos < Len(nums)
                 THEN pc' = "group" /\ group_pos' = group_pos + 1
                 ELSE pc' = "rows"
      /\ (pc = "rows" /\ rows_read' # rows_read) =>
           /\ UNCHANGED AggregateVars
           /\ IF CellAt(row', order_col) # None
              THEN pc' = "group" /\ group_pos' = 1
              ELSE pc' = "rows"
    ]_vars

\* C7 witness: a row with an order id and empty name and quantity cells in
\* every group has been passed and no record exists.
C7_Witness ==
  /\ pc = "rows"
  /\ rows_read >= 1
  /\ CellAt(row, order_col) # None
  /\ \A i \in 1..Len(nums) :
       GroupName(nums[i]) = None /\ GroupQuantity(nums[i]) = None
  /\ extracted_rows = <<>>
  /\ product_totals = <<>>

\* The header loop has run.
HeadersResolved == file_exists /\ pc \notin {"start", "header"}

\* C8: once the headers are resolved, a header that reads total_qty in any
\* letter case is normalized to total_quantity and holds no Quantity(n) role,
\* and the header "Product Name 2" holds the role ProductName(2).
C8_TotalQtyAlias ==
  HeadersResolved =>
    \A idx \in 1..Len(header_cells) :
      /\ lower(HeaderText(idx)) = <<"t","o","t","a","l","_","q","t","y">> =>
           /\ normalize_header(HeaderText(idx)) = S_total_quantity
           /\ \A num \in DOMAIN quantity_cols : quantity_cols[num] # idx
      /\ HeaderText(idx) = <<"P","r","o","d","u","c","t"," ","N","a","m","e"," ","2">> =>
           /\ 2 \in DOMAIN product_name_cols
           /\ product_name_cols[2] = idx

\* The records of a key that carry a name.
NamedRecords(key) ==
  { i \in 1..Len(extracted_rows) :
      /\ extracted_rows[i].product_key = key
      /\ extracted_rows[i].product_name # None }

\* The name of the first record, in discovery order, among those in S.
FirstName(S) ==
  extracted_rows[CHOOSE i \in S :
                   \A j \in S : extracted_rows[i].row_index
                                <= extracted_rows[j].row_index].product_name

\* C9 as stated: every product key with a named record has a recorded
\* display name, the raw name of its first named record.
C9_FirstNameOfEveryKey ==
  \A key \in RecordKeys :
    NamedRecords(key) # {} =>
      /\ key \in DOMAIN product_display_names
      /\ product_display_names[key] = FirstName(NamedRecords(key))

\* C9 amended: every non-empty product key has a recorded display name, the
\* raw name of its first record; a recorded name is never overwritten or
\* dropped; the ranking shows each of its keys under that name; for the empty
\* key no name is recorded.
C9_FirstNameOfNamedKey ==
  /\ [](/\ \A key \in RecordKeys \ {<<>>} :
             /\ key \in DOMAIN product_display_names
             /\ product_display_names[key] = FirstName(NamedRecords(key))
        /\ <<>> \notin DOMAIN product_display_names
        /\ Summarised =>
             \A key \in (TotalsKeys(product_totals) \ {<<>>})
                        \cap DOMAIN product_has_numeric :
               \E i \in 1..Len(summary_rows) :
                 summary_rows[i] =
                   [name |-> product_display_names[key],
                    total |-> TotalsGet(product_totals, key, None)])
  /\ [][\A key \in DOMAIN product_display_names :
          /\ key \in DOMAIN product_display_names'
          /\ product_display_names'[key] = product_display_names[key]]_vars

\* C9 witness: a ranked key whose second record spells the name differently
\* from the first.
C9_Witness ==
  /\ pc = "done"
  /\ summary_rows # <<>>
  /\ \E i, j \in 1..Len(extracted_rows) :
       /\ extracted_rows[i].product_key = extracted_rows[j].product_key
       /\ extracted_rows[i].row_index < extracted_rows[j].row_index
       /\ extracted_rows[i].product_name # extracted_rows[j].product_name
       /\ summary_rows[1].name = extracted_rows[i].product_name

====
